---- MODULE Spec2Model ----
(***************************************************************************)
(* Colosim audio bridge (colosim_bridge.py): an HTTP ingestion endpoint    *)
(* that normalises producer events and broadcasts them, one JSON line per  *)
(* event, to every TCP subscriber held in BridgeState.                     *)
(*                                                                         *)
(* Text on the wire is modelled as a sequence of lexical tokens: the       *)
(* punctuation of JSON, string literals (carrying their escaped text),     *)
(* integer literals, the literals null/true/false, the newline, and a byte *)
(* that is not valid UTF-8.                                                *)
(***************************************************************************)
EXTENDS Integers, Sequences, FiniteSets, TLC

(***************************************************************************)
(* Bounds of the model.                                                    *)
(***************************************************************************)
\* consumer connections the listener accepts in a run
NumSocks == 2
\* HTTP requests the ingestion endpoint receives in a run
MaxRequests == 2
\* send() calls one sendall makes at most
MaxSends == 2
\* concurrent callers of broadcast in the registry harness
NumCasters == 2
\* entries the registry holds at most when one caller drives it
MaxClients == 3
\* lines in the stream a consumer reads
MaxLines == 2

(***************************************************************************)
(* Tokens and Python values.                                               *)
(***************************************************************************)
P(c) == [k |-> "p", s |-> c, n |-> 0]
StrTok(x) == [k |-> "s", s |-> x, n |-> 0]
IntTok(x) == [k |-> "i", s |-> "", n |-> x]
LitTok(x) == [k |-> "l", s |-> x, n |-> 0]
NL == P("\n")
BadByte == [k |-> "x", s |-> "ff", n |-> 0]

\* Python values: str, int, None/True/False, and dict (an insertion-ordered
\* sequence of key/value items)
PyStr(x) == [k |-> "s", s |-> x, n |-> 0]
PyInt(x) == [k |-> "i", s |-> "", n |-> x]
PyNone == [k |-> "l", s |-> "null", n |-> 0]
PyDict(items) == [k |-> "d", items |-> items]

IsDict(v) == v.k = "d"

Range(f) == {f[i] : i \in DOMAIN f}

\* dict.__contains__
HasKey(d, key) == \E i \in DOMAIN d.items : d.items[i].key = key

\* dict.__getitem__ for a key that is present
Item(d, key) == LET i == CHOOSE j \in DOMAIN d.items : d.items[j].key = key
                IN  d.items[i].val

\* dict.get(key, default)
Get(d, key, default) == IF HasKey(d, key) THEN Item(d, key) ELSE default

\* d[key] = val : replaces the value in place, or appends a new item
SetItem(d, key, val) ==
    IF HasKey(d, key)
    THEN PyDict([i \in DOMAIN d.items |->
                   IF d.items[i].key = key THEN [key |-> key, val |-> val]
                   ELSE d.items[i]])
    ELSE PyDict(Append(d.items, [key |-> key, val |-> val]))

\* bool(v)
Truthy(v) ==
    CASE v.k = "s" -> v.s # ""
      [] v.k = "i" -> v.n # 0
      [] v.k = "l" -> v.s = "true"
      [] v.k = "d" -> Len(v.items) > 0

(***************************************************************************)
(* json.dumps and json.loads on scalars and flat objects.                  *)
(***************************************************************************)
\* the text between the quotes written as it is
json_escape_raw(x) == x

\* the text of a string between the quotes: json.dumps (ensure_ascii) writes
\* a line feed as the two characters \n, and json.loads reads them back
json_escape(x) == IF x = "a\nb" THEN "a\\nb" ELSE x
json_unescape(x) == IF x = "a\\nb" THEN "a\nb" ELSE x

dumps_scalar(v) ==
    CASE v.k = "s" -> StrTok(json_escape(v.s))
      [] v.k = "i" -> IntTok(v.n)
      [] v.k = "l" -> LitTok(v.s)

RECURSIVE dumps_items(_)
dumps_items(items) ==
    IF Len(items) = 0 THEN << >>
    ELSE LET it == items[1]
             one == << StrTok(json_escape(it.key)), P(":"), dumps_scalar(it.val) >>
         IN  IF Len(items) = 1 THEN one
             ELSE one \o << P(",") >> \o dumps_items(Tail(items))

json_dumps(v) ==
    IF IsDict(v) THEN << P("{") >> \o dumps_items(v.items) \o << P("}") >>
    ELSE << dumps_scalar(v) >>

IsScalarTok(t) == t.k \in {"s", "i", "l"}

loads_scalar(t) ==
    CASE t.k = "s" -> PyStr(json_unescape(t.s))
      [] t.k = "i" -> PyInt(t.n)
      [] t.k = "l" -> [k |-> "l", s |-> t.s, n |-> 0]

ParseFail == [ok |-> FALSE, val |-> PyNone]

\* members of an object from token i on: key : value , ... }
RECURSIVE loads_members(_, _, _)
loads_members(toks, i, acc) ==
    IF i + 3 > Len(toks) THEN ParseFail
    ELSE IF ~(toks[i].k = "s" /\ toks[i + 1] = P(":") /\ IsScalarTok(toks[i + 2]))
    THEN ParseFail
    ELSE LET acc2 == SetItem(acc, json_unescape(toks[i].s), loads_scalar(toks[i + 2]))
         IN  IF toks[i + 3] = P("}")
             THEN IF i + 3 = Len(toks) THEN [ok |-> TRUE, val |-> acc2] ELSE ParseFail
             ELSE IF toks[i + 3] = P(",") THEN loads_members(toks, i + 4, acc2)
             ELSE ParseFail

\* a JSON value: a scalar or a flat object
loads_value(toks) ==
    IF Len(toks) = 0 THEN ParseFail
    ELSE IF Len(toks) = 1
    THEN IF IsScalarTok(toks[1]) THEN [ok |-> TRUE, val |-> loads_scalar(toks[1])]
         ELSE ParseFail
    ELSE IF toks[1] # P("{") THEN ParseFail
    ELSE IF Len(toks) = 2
    THEN IF toks[2] = P("}") THEN [ok |-> TRUE, val |-> PyDict(<< >>)] ELSE ParseFail
    ELSE loads_members(toks, 2, PyDict(<< >>))

\* white space, which json.loads skips between tokens and str.strip removes
WS == P(" ")
NotWs(t) == t # WS

\* json.loads(text): ok = FALSE stands for json.JSONDecodeError
json_loads(toks) == loads_value(SelectSeq(toks, NotWs))

\* bytes.decode('utf-8'): FALSE stands for UnicodeDecodeError
utf8_ok(bytes) == \A i \in DOMAIN bytes : bytes[i] # BadByte


(***************************************************************************)
(* do_POST, lines 92-119: the normalised event and its JSON line.          *)
(***************************************************************************)
\* an optional field copied whenever it is present
PassThroughPresent(out, event, key) ==
    IF HasKey(event, key) THEN SetItem(out, key, Item(event, key)) ELSE out

\* an optional field is copied when its value is truthy
PassThrough(out, event, key) ==
    IF HasKey(event, key) /\ Truthy(Item(event, key))
    THEN SetItem(out, key, Item(event, key))
    ELSE out

\* sourceAnimation is copied when truthy and not the sentinel -1
PassAnimation(out, event) ==
    IF HasKey(event, "sourceAnimation")
       /\ Truthy(Item(event, "sourceAnimation"))
       /\ Item(event, "sourceAnimation") # PyInt(-1)
    THEN SetItem(out, "sourceAnimation", Item(event, "sourceAnimation"))
    ELSE out

DefaultType == "AREA_SOUND_EFFECT"
DefaultRange == 15

\* range given the default of the fields before it
BaseOutRangeZero(event, count) ==
    PyDict(<< [key |-> "type", val |-> Get(event, "type", PyStr(DefaultType))],
              [key |-> "soundId", val |-> Get(event, "soundId", PyInt(count))],
              [key |-> "delay", val |-> Get(event, "delay", PyInt(0))],
              [key |-> "timestamp", val |-> Get(event, "timestamp", PyInt(0))],
              [key |-> "sceneX", val |-> Get(event, "sceneX", PyInt(0))],
              [key |-> "sceneY", val |-> Get(event, "sceneY", PyInt(0))],
              [key |-> "range", val |-> Get(event, "range", PyInt(0))] >>)

\* the keys the handler always writes, in the order it writes them
BaseOut(event, count) ==
    PyDict(<< [key |-> "type", val |-> Get(event, "type", PyStr(DefaultType))],
              [key |-> "soundId", val |-> Get(event, "soundId", PyInt(count))],
              [key |-> "delay", val |-> Get(event, "delay", PyInt(0))],
              [key |-> "timestamp", val |-> Get(event, "timestamp", PyInt(0))],
              [key |-> "sceneX", val |-> Get(event, "sceneX", PyInt(0))],
              [key |-> "sceneY", val |-> Get(event, "sceneY", PyInt(0))],
              [key |-> "range", val |-> Get(event, "range", PyInt(DefaultRange))] >>)

\* the optional keys the handler copies, in the order it tests them
CopiedKeys == << "soundFile", "soundUrl", "attackType", "source" >>

RECURSIVE PassAll(_, _, _)
PassAll(out, event, keys) ==
    IF Len(keys) = 0 THEN out
    ELSE PassAll(PassThrough(out, event, keys[1]), event, Tail(keys))

normalize(event, count) ==
    PassAll(PassAnimation(PassThrough(BaseOut(event, count), event, "sourceName"),
                          event),
            event, CopiedKeys)


(***************************************************************************)
(* State.                                                                  *)
(***************************************************************************)
VARIABLES
    tcp_clients,  \* BridgeState.tcp_clients: the list of subscriber sockets
    lock,         \* BridgeState.lock: the thread holding it, or NoThread
    event_count,  \* BridgeState.event_count
    pc,           \* where each thread stands
    loc,          \* each thread's local variables
    fd,           \* per socket, the bridge's end: "unborn", "open", "closed"
    peer,         \* per socket, the consumer's end: "up", "gone", or
                  \* "stalled" (connected, not reading, its buffers full)
    out,          \* per socket, the tokens sendall has written to it
    req,          \* the request the HTTP handler is serving
    resp,         \* the responses written to producers, in order
    hist,         \* history: what has happened so far (read by no action)
    client        \* audio_socket_client.connect: its locals and its output

vars == << tcp_clients, lock, event_count, pc, loc, fd, peer, out, req, resp, hist,
           client >>

Socks == 1 .. NumSocks

\* the HTTP server thread (HTTPServer serves one request at a time), the
\* accept loop, and one monitor per accepted socket
Http == << "http", 0 >>
Tcp == << "tcp", 0 >>
Mon(s) == << "mon", s >>
\* callers of the registry other than the bridge's own threads
Adder(i) == << "add", i >>
Caster(i) == << "bc", i >>
\* one caller making calls of the registry one after another
Caller == << "call", 0 >>
NoThread == << "none", 0 >>

Threads == {Http, Tcp} \cup {Mon(s) : s \in Socks} \cup {Adder(s) : s \in Socks}
           \cup {Caster(i) : i \in 1 .. NumCasters} \cup {Caller}

NoExc == "none"
NoEvent == PyNone
NoLoc == [sock |-> 0, event |-> NoEvent, msg |-> << >>, i |-> 0, off |-> 0,
          nsend |-> 0, dead |-> << >>, exc |-> NoExc,
          members |-> << >>, ordered |-> FALSE]

NoReq == [method |-> "none", body |-> << >>]

\* nreq, methods: the requests received; accepted: the POST requests among
\* them whose body is well-formed JSON; fallback: the identifiers given to
\* events that came without soundId; ncalls: the broadcast calls that took
\* the lock; expect: per socket, the frames of the broadcast calls that found
\* it registered, in the order they took the lock
HistInit == [nreq |-> 0, methods |-> << >>, accepted |-> 0, fallback |-> << >>,
             ncalls |-> 0, expect |-> [s \in Socks |-> << >>]]

\* the consumer script before connect() is called. wire: the bytes the
\* server has sent and recv has not returned yet; printed: what the loop has
\* printed; events: the arguments of the calls of handler, in order.
\* History, read by no action: whole (the wire at the start), recvd (the
\* text decoded so far), nlines (the lines taken out of the buffer), cut
\* (a read has ended inside a line), eof (recv has returned b''),
\* interrupted (KeyboardInterrupt was raised)
NoClient == [pc |-> "off", sock |-> "none", discover |-> FALSE, wire |-> << >>,
             buffer |-> << >>, events |-> << >>,
             printed |-> << >>, exc |-> NoExc, whole |-> << >>, recvd |-> << >>,
             nlines |-> 0, cut |-> FALSE, eof |-> FALSE, interrupted |-> FALSE]

\* BridgeState.__init__, lines 36-39, and nothing written or received yet
InitBridge ==
    /\ lock = NoThread
    /\ event_count = 0
    /\ out = [s \in Socks |-> << >>]
    /\ req = NoReq
    /\ resp = << >>
    /\ hist = HistInit

InitCommon ==
    /\ InitBridge
    /\ client = NoClient

Init ==
    /\ InitCommon
    /\ tcp_clients = << >>
    /\ loc = [t \in Threads |-> NoLoc]
    /\ pc = [t \in Threads |-> IF t = Http THEN "idle"
                               ELSE IF t = Tcp THEN "accept" ELSE "off"]
    /\ fd = [s \in Socks |-> "unborn"]
    /\ peer = [s \in Socks |-> "up"]

(***************************************************************************)
(* BridgeState.add_client and remove_client, lines 41-48.                  *)
(***************************************************************************)
\* with self.lock: (entry)
LockAcquire(t, from, to) ==
    /\ pc[t] = from
    /\ lock = NoThread
    /\ lock' = t
    /\ pc' = [pc EXCEPT ![t] = to]

\* list.remove(x): the list without the first occurrence of x
RECURSIVE ListRemove(_, _)
ListRemove(list, x) ==
    IF Len(list) = 0 THEN << >>
    ELSE IF list[1] = x THEN Tail(list)
    ELSE << list[1] >> \o ListRemove(Tail(list), x)

\* add_client going on to the append without the lock
add_client_nolock(t) ==
    /\ pc[t] = "add_lock"
    /\ pc' = [pc EXCEPT ![t] = "add_append"]
    /\ UNCHANGED << client, tcp_clients, lock, event_count, loc, fd, peer, out, req, resp, hist >>

\* with self.lock: (line 42)
add_client_lock(t) ==
    /\ LockAcquire(t, "add_lock", "add_append")
    /\ UNCHANGED << client, tcp_clients, event_count, loc, fd, peer, out, req, resp, hist >>

\* the list rebuilt from the new socket alone
add_client_overwrite(t, to) ==
    /\ pc[t] = "add_append"
    /\ tcp_clients' = << loc[t].sock >>
    /\ lock' = NoThread
    /\ pc' = [pc EXCEPT ![t] = to]
    /\ UNCHANGED << client, event_count, loc, fd, peer, out, req, resp, hist >>

\* self.tcp_clients.append(writer), and the lock is released
add_client_append(t, to) ==
    /\ pc[t] = "add_append"
    /\ tcp_clients' = Append(tcp_clients, loc[t].sock)
    /\ lock' = NoThread
    /\ pc' = [pc EXCEPT ![t] = to]
    /\ UNCHANGED << client, event_count, loc, fd, peer, out, req, resp, hist >>

remove_client_lock(t) ==
    /\ LockAcquire(t, "rm_lock", "rm_remove")
    /\ UNCHANGED << client, tcp_clients, event_count, loc, fd, peer, out, req, resp, hist >>

\* remove_client returning with the registry left as it was
remove_client_skip(t, to) ==
    /\ pc[t] = "rm_remove"
    /\ lock' = NoThread
    /\ pc' = [pc EXCEPT ![t] = to]
    /\ UNCHANGED << client, tcp_clients, event_count, loc, fd, peer, out, req, resp, hist >>

\* the removal that empties the registry
remove_client_clear(t, to) ==
    /\ pc[t] = "rm_remove"
    /\ tcp_clients' = << >>
    /\ lock' = NoThread
    /\ pc' = [pc EXCEPT ![t] = to]
    /\ UNCHANGED << client, event_count, loc, fd, peer, out, req, resp, hist >>

\* the removal made without the membership test
remove_client_unguarded(t, to) ==
    /\ pc[t] = "rm_remove"
    /\ tcp_clients' = ListRemove(tcp_clients, loc[t].sock)
    /\ loc' = [loc EXCEPT ![t].exc = IF loc[t].sock \in Range(tcp_clients)
                                      THEN NoExc ELSE "ValueError"]
    /\ lock' = NoThread
    /\ pc' = [pc EXCEPT ![t] = to]
    /\ UNCHANGED << client, event_count, fd, peer, out, req, resp, hist >>

\* if writer in self.tcp_clients: self.tcp_clients.remove(writer)
remove_client_remove(t, to) ==
    /\ pc[t] = "rm_remove"
    /\ tcp_clients' = IF loc[t].sock \in Range(tcp_clients)
                      THEN ListRemove(tcp_clients, loc[t].sock)
                      ELSE tcp_clients
    /\ lock' = NoThread
    /\ pc' = [pc EXCEPT ![t] = to]
    /\ UNCHANGED << client, event_count, loc, fd, peer, out, req, resp, hist >>


(***************************************************************************)
(* BridgeState.broadcast, lines 50-63.                                     *)
(***************************************************************************)
\* the line sent without its newline
FrameNoNewline(msg) == msg

\* (message + '\n').encode('utf-8')
Frame(msg) == msg \o << NL >>

\* how many items the next send() of sendall's loop takes of the rem items
\* left, nsend calls having been made: all of them, or only half
SendSizes(nsend, rem) ==
    {rem} \cup (IF rem >= 2 /\ nsend + 1 < MaxSends THEN {rem \div 2} ELSE {})

\* what sendall raises on a socket whose peer is gone or whose fd is closed
SendErrors == {"BrokenPipeError", "ConnectionResetError", "OSError"}

\* a handler that names only BrokenPipeError
CaughtBrokenPipeOnly(e) == e = "BrokenPipeError"

\* except (BrokenPipeError, ConnectionResetError, OSError)
Caught(e) == e \in {"BrokenPipeError", "ConnectionResetError", "OSError"}

\* the occurrences of s in a list
Count(list, s) == Cardinality({i \in DOMAIN list : list[i] = s})

RECURSIVE Repeat(_, _)
Repeat(seq, n) == IF n = 0 THEN << >> ELSE seq \o Repeat(seq, n - 1)

\* broadcast entered without waiting for the lock
broadcast_nolock(t) ==
    /\ pc[t] = "bc_lock"
    /\ lock' = t
    /\ pc' = [pc EXCEPT ![t] = "bc_send"]
    /\ loc' = [loc EXCEPT ![t].i = 1, ![t].off = 0, ![t].nsend = 0,
                          ![t].dead = << >>,
                          ![t].members = tcp_clients,
                          ![t].ordered = \A s \in Socks : pc[Adder(s)] = "done"]
    /\ hist' = [hist EXCEPT
                  !.ncalls = @ + 1,
                  !.expect = [s \in Socks |->
                                @[s] \o Repeat(Frame(loc[t].msg), Count(tcp_clients, s))]]
    /\ UNCHANGED << client, tcp_clients, event_count, fd, peer, out, req, resp >>

\* with self.lock: dead = []
broadcast_lock(t) ==
    /\ LockAcquire(t, "bc_lock", "bc_send")
    /\ loc' = [loc EXCEPT ![t].i = 1, ![t].off = 0, ![t].nsend = 0,
                          ![t].dead = << >>,
                          ![t].members = tcp_clients,
                          ![t].ordered = \A s \in Socks : pc[Adder(s)] = "done"]
    /\ hist' = [hist EXCEPT
                  !.ncalls = @ + 1,
                  !.expect = [s \in Socks |->
                                @[s] \o Repeat(Frame(loc[t].msg), Count(tcp_clients, s))]]
    /\ UNCHANGED << client, tcp_clients, event_count, fd, peer, out, req, resp >>

\* one send() inside sock.sendall(...) for the socket the loop stands at:
\* it takes some of the frame, or raises; while the consumer does not read
\* and its buffers are full, send() blocks
broadcast_send(t) ==
    /\ pc[t] = "bc_send"
    /\ loc[t].i <= Len(tcp_clients)
    /\ LET s == tcp_clients[loc[t].i]
           frame == Frame(loc[t].msg)
           rem == Len(frame) - loc[t].off
       IN  \/ /\ fd[s] = "open"
              /\ peer[s] # "stalled"
              /\ \E n \in SendSizes(loc[t].nsend, rem) :
                   /\ out' = [out EXCEPT ![s] = @ \o SubSeq(frame, loc[t].off + 1,
                                                            loc[t].off + n)]
                   /\ loc' = IF n = rem
                             THEN [loc EXCEPT ![t].i = @ + 1, ![t].off = 0,
                                              ![t].nsend = 0]
                             ELSE [loc EXCEPT ![t].off = @ + n,
                                              ![t].nsend = @ + 1]
              /\ UNCHANGED << lock, pc >>
           \/ /\ fd[s] # "open" \/ peer[s] = "gone"
              /\ \E e \in SendErrors :
                   IF Caught(e)
                   THEN /\ loc' = [loc EXCEPT ![t].dead = Append(@, s),
                                              ![t].i = @ + 1, ![t].off = 0,
                                              ![t].nsend = 0]
                        /\ UNCHANGED << lock, pc >>
                   ELSE /\ loc' = [loc EXCEPT ![t].exc = e]
                        /\ lock' = NoThread
                        /\ pc' = [pc EXCEPT ![t] = "bc_ret"]
              /\ UNCHANGED out
    /\ UNCHANGED << client, tcp_clients, event_count, fd, peer, req, resp, hist >>

\* the dead sockets closed and left in the registry
ReapCloseOnly(list, dead, closed) ==
    [list |-> list, closed |-> closed \cup Range(dead), exc |-> NoExc]

\* every socket of the registry removed and closed once one write failed
ReapEveryone(list, dead, closed) ==
    IF Len(dead) = 0 THEN [list |-> list, closed |-> closed, exc |-> NoExc]
    ELSE [list |-> << >>, closed |-> closed \cup Range(list), exc |-> NoExc]

\* for sock in dead: self.tcp_clients.remove(sock); sock.close()
RECURSIVE ReapDead(_, _, _)
ReapDead(list, dead, closed) ==
    IF Len(dead) = 0 THEN [list |-> list, closed |-> closed, exc |-> NoExc]
    ELSE IF dead[1] \notin Range(list)
    THEN [list |-> list, closed |-> closed, exc |-> "ValueError"]
    ELSE ReapDead(ListRemove(list, dead[1]), Tail(dead), closed \cup {dead[1]})

\* the second loop of broadcast, and the lock is released
broadcast_reap(t) ==
    /\ pc[t] = "bc_send"
    /\ loc[t].i > Len(tcp_clients)
    /\ LET r == ReapDead(tcp_clients, loc[t].dead, {})
       IN  /\ tcp_clients' = r.list
           /\ fd' = [s \in Socks |-> IF s \in r.closed THEN "closed" ELSE fd[s]]
           /\ loc' = [loc EXCEPT ![t].exc = r.exc]
    /\ lock' = NoThread
    /\ pc' = [pc EXCEPT ![t] = "bc_ret"]
    /\ UNCHANGED << client, event_count, peer, out, req, resp, hist >>


(***************************************************************************)
(* BridgeHTTPHandler, lines 69-136.                                        *)
(***************************************************************************)
Field(key, val) == [key |-> key, val |-> val]

\* request bodies a producer sends
BodyTruncated == << P("{"), StrTok("soundId"), P(":") >>
BodyBadUtf8 == << BadByte >>
BodyNumber == << IntTok(5) >>
EventPoint == PyDict(<< Field("type", PyStr("SOUND_EFFECT")),
                        Field("soundId", PyInt(2498)) >>)
EventBare == PyDict(<< >>)
EventExtras == PyDict(<< Field("soundFile", PyStr("a.ogg")),
                         Field("label", PyStr("x")) >>)

Bodies == {BodyTruncated, BodyBadUtf8, BodyNumber,
           json_dumps(EventPoint), json_dumps(EventBare), json_dumps(EventExtras)}

Requests == {[method |-> "POST", body |-> b] : b \in Bodies}
            \cup {[method |-> "OPTIONS", body |-> << >>]}

\* send_response(200) ... wfile.write(b'{"ok":true}')
OkResponse == [status |-> 200, body |-> << P("{"), StrTok("ok"), P(":"),
                                           LitTok("true"), P("}") >>]
\* send_response(204) ... end_headers()
PreflightResponse == [status |-> 204, body |-> << >>]

\* the bodies that are valid JSON text in valid UTF-8
WellFormed(body) == body \notin {BodyTruncated, BodyBadUtf8}

\* the server hands the next request, one of R, to the handler
http_recv(R) ==
    /\ pc[Http] = "idle"
    /\ hist.nreq < MaxRequests
    /\ \E r \in R :
         /\ req' = r
         /\ pc' = [pc EXCEPT ![Http] = IF r.method = "POST" THEN "post_respond"
                                       ELSE "options"]
         /\ hist' = [hist EXCEPT
                       !.nreq = @ + 1,
                       !.methods = Append(@, r.method),
                       !.accepted = IF r.method = "POST" /\ WellFormed(r.body)
                                    THEN @ + 1 ELSE @]
    /\ UNCHANGED << client, tcp_clients, lock, event_count, loc, fd, peer, out, resp >>

\* the acknowledgment left for after the event is handled
do_POST_respond_deferred ==
    /\ pc[Http] = "post_respond"
    /\ pc' = [pc EXCEPT ![Http] = "post_parse"]
    /\ UNCHANGED << client, tcp_clients, lock, event_count, loc, fd, peer, out, req, resp,
                    hist >>

\* lines 73-83: the body is read and the acknowledgment written
do_POST_respond ==
    /\ pc[Http] = "post_respond"
    /\ resp' = Append(resp, OkResponse)
    /\ pc' = [pc EXCEPT ![Http] = "post_parse"]
    /\ UNCHANGED << client, tcp_clients, lock, event_count, loc, fd, peer, out, req, hist >>

\* a body that does not parse taken for an empty event
ParseBodyLenient(body) ==
    IF utf8_ok(body) /\ json_loads(body).ok THEN json_loads(body)
    ELSE [ok |-> TRUE, val |-> PyDict(<< >>)]

\* lines 85-88: the body parsed, or not
ParseBody(body) == IF utf8_ok(body) THEN json_loads(body) ELSE ParseFail

\* the counter left as it is
CountEventStuck(count) == count

\* the counter stepped twice
CountEventTwice(count) == count + 2

\* line 90
CountEvent(count) == count + 1

\* lines 85-125: parse, count, normalise, encode
do_POST_parse ==
    /\ pc[Http] = "post_parse"
    /\ LET parsed == ParseBody(req.body)
           event == parsed.val
           count == CountEvent(event_count)
       IN  IF ~parsed.ok
           THEN /\ pc' = [pc EXCEPT ![Http] = "post_ret"]
                /\ UNCHANGED << event_count, loc, hist >>
           ELSE /\ event_count' = count
                /\ IF ~IsDict(event)
                   THEN \* event.get on a value that is no dict
                        /\ loc' = [loc EXCEPT ![Http].exc = "AttributeError"]
                        /\ pc' = [pc EXCEPT ![Http] = "post_ret"]
                        /\ UNCHANGED hist
                   ELSE /\ loc' = [loc EXCEPT
                                     ![Http].event = event,
                                     ![Http].msg = json_dumps(normalize(event, count))]
                        /\ pc' = [pc EXCEPT ![Http] = "bc_lock"]
                        /\ hist' = [hist EXCEPT
                                      !.fallback =
                                        IF HasKey(event, "soundId") THEN @
                                        ELSE Append(@, Item(normalize(event, count),
                                                            "soundId").n)]
    /\ UNCHANGED << client, tcp_clients, lock, fd, peer, out, req, resp >>

\* the handler returns (or its exception ends the request)
do_POST_return ==
    /\ pc[Http] \in {"post_ret", "bc_ret"}
    /\ pc' = [pc EXCEPT ![Http] = "idle"]
    /\ loc' = [loc EXCEPT ![Http] = NoLoc]
    /\ req' = NoReq
    /\ UNCHANGED << client, tcp_clients, lock, event_count, fd, peer, out, resp, hist >>

\* the pre-flight request counted as an event
do_OPTIONS_counting ==
    /\ pc[Http] = "options"
    /\ resp' = Append(resp, PreflightResponse)
    /\ event_count' = event_count + 1
    /\ pc' = [pc EXCEPT ![Http] = "idle"]
    /\ req' = NoReq
    /\ UNCHANGED << client, tcp_clients, lock, loc, fd, peer, out, hist >>

\* lines 130-136
do_OPTIONS ==
    /\ pc[Http] = "options"
    /\ resp' = Append(resp, PreflightResponse)
    /\ pc' = [pc EXCEPT ![Http] = "idle"]
    /\ req' = NoReq
    /\ UNCHANGED << client, tcp_clients, lock, event_count, loc, fd, peer, out, hist >>

(***************************************************************************)
(* run_tcp_server, lines 143-174: the accept loop and the monitors.        *)
(***************************************************************************)
\* server_sock.accept(): the next consumer connects
tcp_accept ==
    /\ pc[Tcp] = "accept"
    /\ \E s \in Socks :
         /\ fd[s] = "unborn"
         /\ \A r \in Socks : r < s => fd[r] # "unborn"
         /\ fd' = [fd EXCEPT ![s] = "open"]
         /\ loc' = [loc EXCEPT ![Tcp].sock = s]
    /\ pc' = [pc EXCEPT ![Tcp] = "add_lock"]
    /\ UNCHANGED << client, tcp_clients, lock, event_count, peer, out, req, resp, hist >>

\* threading.Thread(target=monitor, ...).start()
tcp_start_monitor ==
    /\ pc[Tcp] = "spawn"
    /\ pc' = [pc EXCEPT ![Tcp] = "accept", ![Mon(loc[Tcp].sock)] = "recv"]
    /\ loc' = [loc EXCEPT ![Tcp] = NoLoc, ![Mon(loc[Tcp].sock)].sock = loc[Tcp].sock]
    /\ UNCHANGED << client, tcp_clients, lock, event_count, fd, peer, out, req, resp, hist >>

\* sock.recv(1024) returns b'' or raises: the loop of the monitor ends
monitor_recv_end(s) ==
    /\ pc[Mon(s)] = "recv"
    /\ peer[s] = "gone" \/ fd[s] = "closed"
    /\ pc' = [pc EXCEPT ![Mon(s)] = "rm_lock"]
    /\ UNCHANGED << client, tcp_clients, lock, event_count, loc, fd, peer, out, req, resp, hist >>

\* the monitor ended without closing the socket
monitor_exit_open(s) ==
    /\ pc[Mon(s)] = "mon_close"
    /\ pc' = [pc EXCEPT ![Mon(s)] = "done"]
    /\ UNCHANGED << client, tcp_clients, lock, event_count, loc, fd, peer, out, req,
                    resp, hist >>

\* finally: ... sock.close()
monitor_close(s) ==
    /\ pc[Mon(s)] = "mon_close"
    /\ fd' = [fd EXCEPT ![s] = "closed"]
    /\ pc' = [pc EXCEPT ![Mon(s)] = "done"]
    /\ UNCHANGED << client, tcp_clients, lock, event_count, loc, peer, out, req, resp, hist >>

\* the consumer closes its end of the connection
peer_close(s) ==
    /\ fd[s] # "unborn"
    /\ peer[s] = "up"
    /\ peer' = [peer EXCEPT ![s] = "gone"]
    /\ UNCHANGED << client, tcp_clients, lock, event_count, pc, loc, fd, out, req, resp, hist >>

\* the consumer stops reading and the buffers of the connection fill up
peer_stall(s) ==
    /\ fd[s] = "open"
    /\ peer[s] = "up"
    /\ peer' = [peer EXCEPT ![s] = "stalled"]
    /\ UNCHANGED << client, tcp_clients, lock, event_count, pc, loc, fd, out, req, resp, hist >>

\* the consumer reads again
peer_drain(s) ==
    /\ peer[s] = "stalled"
    /\ peer' = [peer EXCEPT ![s] = "up"]
    /\ UNCHANGED << client, tcp_clients, lock, event_count, pc, loc, fd, out, req, resp, hist >>

(***************************************************************************)
(* The bridge.                                                             *)
(***************************************************************************)
Next ==
    \/ http_recv(Requests)
    \/ do_POST_respond
    \/ do_POST_parse
    \/ broadcast_lock(Http)
    \/ broadcast_send(Http)
    \/ broadcast_reap(Http)
    \/ do_POST_return
    \/ do_OPTIONS
    \/ tcp_accept
    \/ add_client_lock(Tcp)
    \/ add_client_append(Tcp, "spawn")
    \/ tcp_start_monitor
    \/ \E s \in Socks : monitor_recv_end(s)
    \/ \E s \in Socks : remove_client_lock(Mon(s))
    \/ \E s \in Socks : remove_client_remove(Mon(s), "mon_close")
    \/ \E s \in Socks : monitor_close(s)
    \/ \E s \in Socks : peer_close(s)

Spec == Init /\ [][Next]_vars

(***************************************************************************)
(* The bridge with its threads scheduled fairly: the handler, once it      *)
(* holds the lock in broadcast, goes on to release it; the accept loop     *)
(* registers the socket it accepted and starts its monitor; a monitor that *)
(* can take a step takes one, and gets the lock if it is free again and    *)
(* again. Requests, connections and consumers' closes come when they come. *)
(***************************************************************************)
HttpHolding ==
    \/ broadcast_send(Http)
    \/ broadcast_reap(Http)

TcpStep ==
    \/ add_client_lock(Tcp)
    \/ add_client_append(Tcp, "spawn")
    \/ tcp_start_monitor

MonStep(s) ==
    \/ monitor_recv_end(s)
    \/ remove_client_lock(Mon(s))
    \/ remove_client_remove(Mon(s), "mon_close")
    \/ monitor_close(s)

SpecFair ==
    /\ Init /\ [][Next]_vars
    /\ WF_vars(HttpHolding)
    /\ WF_vars(TcpStep)
    /\ \A s \in Socks : SF_vars(MonStep(s))

(***************************************************************************)
(* The bridge, scheduled fairly, with consumers that may stop reading for  *)
(* as long as they like: sendall sets no timeout (line 55), so nothing     *)
(* makes a stalled consumer read again. A thread that can take a step      *)
(* again and again takes it. Producers post point events.                  *)
(***************************************************************************)
StallRequests == {[method |-> "POST", body |-> json_dumps(EventPoint)]}

NextStall ==
    \/ http_recv(StallRequests)
    \/ do_POST_respond
    \/ do_POST_parse
    \/ broadcast_lock(Http)
    \/ broadcast_send(Http)
    \/ broadcast_reap(Http)
    \/ do_POST_return
    \/ tcp_accept
    \/ add_client_lock(Tcp)
    \/ add_client_append(Tcp, "spawn")
    \/ tcp_start_monitor
    \/ \E s \in Socks : monitor_recv_end(s)
    \/ \E s \in Socks : remove_client_lock(Mon(s))
    \/ \E s \in Socks : remove_client_remove(Mon(s), "mon_close")
    \/ \E s \in Socks : monitor_close(s)
    \/ \E s \in Socks : peer_close(s)
    \/ \E s \in Socks : peer_stall(s)
    \/ \E s \in Socks : peer_drain(s)

SpecStall ==
    /\ Init /\ [][NextStall]_vars
    /\ SF_vars(HttpHolding)
    /\ SF_vars(TcpStep)
    /\ \A s \in Socks : SF_vars(MonStep(s))


(***************************************************************************)
(* The registry used by callers of its own: one adder per socket, each     *)
(* calling add_client once, and casters, each calling broadcast once with  *)
(* a line of its own, while consumers may close their end.                 *)
(***************************************************************************)
CasterLine(i) == << IntTok(i) >>

InitReg ==
    /\ InitCommon
    /\ pc = [t \in Threads |->
               IF t \in {Adder(s) : s \in Socks} THEN "add_lock"
               ELSE IF t \in {Caster(i) : i \in 1 .. NumCasters} THEN "bc_lock"
               ELSE "off"]
    /\ fd = [s \in Socks |-> "open"]
    /\ peer = [s \in Socks |-> "up"]
    /\ tcp_clients = << >>
    /\ loc = [t \in Threads |->
                IF t[1] = "add" THEN [NoLoc EXCEPT !.sock = t[2]]
                ELSE IF t[1] = "bc" THEN [NoLoc EXCEPT !.msg = CasterLine(t[2])]
                ELSE NoLoc]

NextReg ==
    \/ \E s \in Socks : add_client_lock(Adder(s))
    \/ \E s \in Socks : add_client_append(Adder(s), "done")
    \/ \E i \in 1 .. NumCasters : broadcast_lock(Caster(i))
    \/ \E i \in 1 .. NumCasters : broadcast_send(Caster(i))
    \/ \E i \in 1 .. NumCasters : broadcast_reap(Caster(i))
    \/ \E s \in Socks : peer_close(s)

SpecReg == InitReg /\ [][NextReg]_vars

(***************************************************************************)
(* The registry driven by one caller that makes any sequence of calls of   *)
(* add_client and remove_client, with any socket, around a single call of  *)
(* broadcast, while consumers may close their end.                         *)
(***************************************************************************)
InitApi ==
    /\ InitCommon
    /\ pc = [t \in Threads |-> IF t = Caller THEN "ready" ELSE "off"]
    /\ fd = [s \in Socks |-> "open"]
    /\ peer = [s \in Socks |-> "up"]
    /\ tcp_clients = << >>
    /\ loc = [t \in Threads |-> NoLoc]

\* state.add_client(s) is called; members: the registry as the call finds it
call_add(s) ==
    /\ pc[Caller] = "ready"
    /\ Len(tcp_clients) < MaxClients
    /\ loc' = [loc EXCEPT ![Caller] = [NoLoc EXCEPT !.sock = s,
                                                    !.members = tcp_clients]]
    /\ pc' = [pc EXCEPT ![Caller] = "add_lock"]
    /\ UNCHANGED << client, tcp_clients, lock, event_count, fd, peer, out, req, resp, hist >>

\* state.remove_client(s) is called
call_remove(s) ==
    /\ pc[Caller] = "ready"
    /\ loc' = [loc EXCEPT ![Caller] = [NoLoc EXCEPT !.sock = s,
                                                    !.members = tcp_clients]]
    /\ pc' = [pc EXCEPT ![Caller] = "rm_lock"]
    /\ UNCHANGED << client, tcp_clients, lock, event_count, fd, peer, out, req, resp, hist >>

\* state.broadcast(line) is called, once in a run
call_broadcast ==
    /\ pc[Caller] = "ready"
    /\ hist.ncalls = 0
    /\ loc' = [loc EXCEPT ![Caller] = [NoLoc EXCEPT !.msg = CasterLine(1)]]
    /\ pc' = [pc EXCEPT ![Caller] = "bc_lock"]
    /\ UNCHANGED << client, tcp_clients, lock, event_count, fd, peer, out, req, resp, hist >>

\* the call has returned and the caller goes on to its next call
call_return ==
    /\ pc[Caller] \in {"add_ret", "rm_ret", "bc_ret"}
    /\ pc' = [pc EXCEPT ![Caller] = "ready"]
    /\ loc' = [loc EXCEPT ![Caller] = NoLoc]
    /\ UNCHANGED << client, tcp_clients, lock, event_count, fd, peer, out, req, resp, hist >>

NextApi ==
    \/ \E s \in Socks : call_add(s)
    \/ \E s \in Socks : call_remove(s)
    \/ call_broadcast
    \/ call_return
    \/ add_client_lock(Caller)
    \/ add_client_append(Caller, "add_ret")
    \/ remove_client_lock(Caller)
    \/ remove_client_remove(Caller, "rm_ret")
    \/ broadcast_lock(Caller)
    \/ broadcast_send(Caller)
    \/ broadcast_reap(Caller)
    \/ \E s \in Socks : peer_close(s)

SpecApi == InitApi /\ [][NextApi]_vars

(***************************************************************************)
(* One request served while every socket is a connected subscriber: the    *)
(* handler on events built from a wider choice of fields.                  *)
(***************************************************************************)
\* per field, the values a producer may give it (NoEvent: the field is absent)
FieldChoices ==
    << << "type", {NoEvent, PyStr("SOUND_EFFECT"), PyStr("AREA_SOUND_EFFECT")} >>,
       << "soundId", {NoEvent, PyInt(2498)} >>,
       << "range", {NoEvent, PyInt(0), PyInt(8)} >>,
       << "sourceName", {NoEvent, PyStr(""), PyStr("Sol Heredit"), PyStr("a\nb")} >>,
       << "sourceAnimation", {NoEvent, PyInt(-1), PyInt(0), PyInt(10883)} >>,
       << "soundFile", {NoEvent, PyStr(""), PyStr("a.ogg")} >>,
       << "label", {NoEvent, PyStr("x")} >> >>

\* the events that give the first n fields some choice of values
RECURSIVE EventsOver(_)
EventsOver(n) ==
    IF n = 0 THEN {PyDict(<< >>)}
    ELSE {IF v = NoEvent THEN e ELSE SetItem(e, FieldChoices[n][1], v) :
            e \in EventsOver(n - 1), v \in FieldChoices[n][2]}

WideRequests == {[method |-> "POST", body |-> json_dumps(e)] :
                   e \in EventsOver(Len(FieldChoices))}

InitPost ==
    /\ InitCommon
    /\ pc = [t \in Threads |-> IF t = Http THEN "idle" ELSE "off"]
    /\ fd = [s \in Socks |-> "open"]
    /\ peer = [s \in Socks |-> "up"]
    /\ tcp_clients = [s \in Socks |-> s]
    /\ loc = [t \in Threads |-> NoLoc]

NextPost ==
    \/ (hist.nreq = 0 /\ http_recv(WideRequests))
    \/ do_POST_respond
    \/ do_POST_parse
    \/ broadcast_lock(Http)
    \/ broadcast_send(Http)
    \/ broadcast_reap(Http)
    \/ do_POST_return

SpecPost == InitPost /\ [][NextPost]_vars


(***************************************************************************)
(* audio_socket_client.py: connect, lines 572-613, and the handlers it     *)
(* calls. The bytes on the wire are the tokens (each a run of ASCII        *)
(* bytes), and, for a string literal that holds a two-byte character, the  *)
(* two parts the literal falls into when it is cut inside that character.  *)
(***************************************************************************)
\* the bytes of the literal x up to the first byte of its two-byte
\* character, and from the second byte of that character on
Lead(x) == [k |-> "a", s |-> x, n |-> 0]
Trail(x) == [k |-> "b", s |-> x, n |-> 0]

DecodeFail == [ok |-> FALSE, text |-> << >>]

NotTrail(b) == b.k # "b"

\* data.decode("utf-8") on the bytes of one read: ok = FALSE stands for
\* UnicodeDecodeError (a character without its second byte, a second byte
\* without its first, a byte that is no UTF-8)
utf8_decode(bytes) ==
    IF \A i \in DOMAIN bytes :
         /\ bytes[i] # BadByte
         /\ bytes[i].k = "a" => (i < Len(bytes) /\ bytes[i + 1] = Trail(bytes[i].s))
         /\ bytes[i].k = "b" => (i > 1 /\ bytes[i - 1] = Lead(bytes[i].s))
    THEN [ok |-> TRUE,
          text |-> SelectSeq([i \in DOMAIN bytes |->
                                IF bytes[i].k = "a" THEN StrTok(bytes[i].s)
                                ELSE bytes[i]],
                             NotTrail)]
    ELSE DecodeFail

\* "\n" in buffer
HasNewline(text) == \E i \in DOMAIN text : text[i] = NL

\* line, buffer = buffer.split("\n", 1)
SplitLine(text) ==
    LET i == CHOOSE j \in DOMAIN text :
               text[j] = NL /\ \A h \in 1 .. (j - 1) : text[h] # NL
    IN  [line |-> SubSeq(text, 1, i - 1), rest |-> SubSeq(text, i + 1, Len(text))]

\* str.strip(): the white space at both ends removed
RECURSIVE lstrip(_)
lstrip(line) ==
    IF Len(line) > 0 /\ line[1] = WS THEN lstrip(Tail(line)) ELSE line

RECURSIVE rstrip(_)
rstrip(line) ==
    IF Len(line) > 0 /\ line[Len(line)] = WS
    THEN rstrip(SubSeq(line, 1, Len(line) - 1)) ELSE line

strip(line) == rstrip(lstrip(line))

\* what handler(event) raises: on_sound_event (lines 473-496) subscripts
\* soundId and type, then sceneX, sceneY and range of an area event or delay
\* of any other; on_discover_event (lines 505-508) subscripts soundId and type
HandlerRaises(event, discover) ==
    IF ~IsDict(event) THEN "TypeError"
    ELSE IF ~HasKey(event, "soundId") \/ ~HasKey(event, "type") THEN "KeyError"
    ELSE IF discover THEN NoExc
    ELSE IF Item(event, "type") = PyStr("AREA_SOUND_EFFECT")
    THEN IF \A key \in {"sceneX", "sceneY", "range"} : HasKey(event, key)
         THEN NoExc ELSE "KeyError"
    ELSE IF HasKey(event, "delay") THEN NoExc ELSE "KeyError"

Printed(what, line) == [what |-> what, line |-> line]

\* lines 599-606 on one line taken from the buffer: c is the client before,
\* the result the client after
TakeLine(c) ==
    LET sp == SplitLine(c.buffer)
        line == strip(sp.line)
        taken == [c EXCEPT !.buffer = sp.rest, !.nlines = @ + 1]
        parsed == json_loads(line)
    IN  IF Len(line) = 0 THEN taken
        ELSE IF ~parsed.ok
        THEN [taken EXCEPT !.printed = Append(@, Printed("Invalid JSON", line))]
        ELSE LET e == HandlerRaises(parsed.val, c.discover)
             IN  [taken EXCEPT !.events = Append(@, parsed.val),
                               !.exc = e,
                               !.pc = IF e = NoExc THEN @ ELSE "finally"]

\* data = sock.recv(4096), some of the bytes sent and at least one, and
\* buffer += data.decode("utf-8")
client_recv ==
    /\ client.pc = "recv"
    /\ Len(client.wire) > 0
    /\ \E n \in 1 .. Len(client.wire) :
         LET d == utf8_decode(SubSeq(client.wire, 1, n))
             read == [client EXCEPT !.wire = SubSeq(client.wire, n + 1, Len(client.wire))]
         IN  client' = IF d.ok
                       THEN [read EXCEPT !.buffer = @ \o d.text,
                                         !.recvd = @ \o d.text,
                                         !.pc = "lines"]
                       ELSE [read EXCEPT !.exc = "UnicodeDecodeError",
                                         !.pc = "finally"]
    /\ UNCHANGED << tcp_clients, lock, event_count, pc, loc, fd, peer, out, req, resp,
                    hist >>

\* recv goes on and the loop is not left
client_eof_ignored ==
    /\ client.pc = "recv"
    /\ Len(client.wire) = 0
    /\ ~client.eof
    /\ client' = [client EXCEPT !.eof = TRUE]
    /\ UNCHANGED << tcp_clients, lock, event_count, pc, loc, fd, peer, out, req, resp,
                    hist >>

\* recv returns b'' once the server has closed and all was read:
\* print("Server disconnected."); break
client_eof ==
    /\ client.pc = "recv"
    /\ Len(client.wire) = 0
    /\ client' = [client EXCEPT !.printed = Append(@, Printed("Server disconnected.", << >>)),
                                !.eof = TRUE,
                                !.pc = "finally"]
    /\ UNCHANGED << tcp_clients, lock, event_count, pc, loc, fd, peer, out, req, resp,
                    hist >>

\* one turn of `while "\n" in buffer`
client_line ==
    /\ client.pc = "lines"
    /\ HasNewline(client.buffer)
    /\ client' = TakeLine(client)
    /\ UNCHANGED << tcp_clients, lock, event_count, pc, loc, fd, peer, out, req, resp,
                    hist >>

\* what is left of the buffer thrown away before the next read
client_wait_dropping ==
    /\ client.pc = "lines"
    /\ ~HasNewline(client.buffer)
    /\ client' = [client EXCEPT !.pc = "recv", !.buffer = << >>,
                                !.cut = @ \/ Len(client.buffer) > 0]
    /\ UNCHANGED << tcp_clients, lock, event_count, pc, loc, fd, peer, out, req, resp,
                    hist >>

\* no "\n" in buffer: back to recv
client_wait ==
    /\ client.pc = "lines"
    /\ ~HasNewline(client.buffer)
    /\ client' = [client EXCEPT !.pc = "recv",
                                !.cut = @ \/ Len(client.buffer) > 0]
    /\ UNCHANGED << tcp_clients, lock, event_count, pc, loc, fd, peer, out, req, resp,
                    hist >>

\* except KeyboardInterrupt: the summary or "Disconnected." is printed
client_interrupt ==
    /\ client.pc \in {"recv", "lines"}
    /\ client' = [client EXCEPT
                    !.printed = Append(@, Printed(IF client.discover THEN "summary"
                                                  ELSE "Disconnected.", << >>)),
                    !.interrupted = TRUE,
                    !.pc = "finally"]
    /\ UNCHANGED << tcp_clients, lock, event_count, pc, loc, fd, peer, out, req, resp,
                    hist >>

\* finally: sock.close()
client_close ==
    /\ client.pc = "finally"
    /\ client' = [client EXCEPT !.sock = "closed", !.pc = "done"]
    /\ UNCHANGED << tcp_clients, lock, event_count, pc, loc, fd, peer, out, req, resp,
                    hist >>

\* the lines a server sends: events the handlers accept, one of them padded
\* with white space and one with a two-byte character in a string, a frame
\* of the bridge, a blank line, text that is no JSON, and JSON that is no
\* event
LineSfx == json_dumps(PyDict(<< Field("type", PyStr("SOUND_EFFECT")),
                                Field("soundId", PyInt(2498)),
                                Field("delay", PyInt(0)) >>))
LinePadded == << WS >> \o LineSfx \o << WS >>
LineAccent == << P("{"), StrTok("soundId"), P(":"), IntTok(1), P(","),
                 StrTok("type"), P(":"), StrTok("SOUND_EFFECT"), P(","),
                 StrTok("delay"), P(":"), IntTok(0), P(","),
                 StrTok("sourceName"), P(":"), Lead("Jos\\u00e9"), Trail("Jos\\u00e9"),
                 P("}") >>
LineBridge == json_dumps(normalize(EventBare, 1))
LineBlank == << WS >>
LineNumber == << IntTok(5) >>
LineNoId == json_dumps(PyDict(<< Field("type", PyStr("SOUND_EFFECT")) >>))

LineKinds == {LinePadded, LineAccent, LineBridge, LineBlank,
              BodyTruncated, LineNumber, LineNoId}

\* the streams of at most n lines, each line ended by a newline
RECURSIVE WiresOf(_)
WiresOf(n) ==
    IF n = 0 THEN {<< >>}
    ELSE {<< >>} \cup {w \o l \o << NL >> : w \in WiresOf(n - 1), l \in LineKinds}

\* a stream may end without the newline of its last line
Wires == WiresOf(MaxLines)
         \cup {SubSeq(w, 1, Len(w) - 1) : w \in WiresOf(MaxLines) \ {<< >>}}

\* connect() has connected (lines 581-590): buffer = ""
InitClient ==
    /\ InitBridge
    /\ tcp_clients = << >>
    /\ loc = [t \in Threads |-> NoLoc]
    /\ pc = [t \in Threads |-> "off"]
    /\ fd = [s \in Socks |-> "unborn"]
    /\ peer = [s \in Socks |-> "up"]
    /\ \E w \in Wires, d \in BOOLEAN :
         client = [NoClient EXCEPT !.pc = "recv", !.sock = "open", !.discover = d,
                                   !.wire = w, !.whole = w]

NextClient ==
    \/ client_recv
    \/ client_eof
    \/ client_line
    \/ client_wait
    \/ client_interrupt
    \/ client_close

SpecClient == InitClient /\ [][NextClient]_vars

\* the loop of lines 598-606 run until the buffer holds no newline or the
\* handler raises
RECURSIVE RunLines(_)
RunLines(c) ==
    IF c.pc = "lines" /\ HasNewline(c.buffer) THEN RunLines(TakeLine(c)) ELSE c

\* the calls of handler when all the bytes arrive in a single read
OneReadEvents(bytes, discover) ==
    LET d == utf8_decode(bytes)
    IN  IF ~d.ok THEN << >>
        ELSE RunLines([NoClient EXCEPT !.pc = "lines", !.discover = discover,
                                       !.buffer = d.text]).events

(***************************************************************************)
(* Helpers of the properties.                                              *)
(***************************************************************************)
IsPrefix(a, b) == Len(a) <= Len(b) /\ SubSeq(b, 1, Len(a)) = a

EndsWith(a, suffix) ==
    /\ Len(a) >= Len(suffix)
    /\ SubSeq(a, Len(a) - Len(suffix) + 1, Len(a)) = suffix

\* the complete lines of a stream, each without its newline: what the
\* reader's loop over buffer.split("\n", 1) takes out of the buffer
\* (audio_socket_client.py, lines 598-599)
RECURSIVE Lines(_)
Lines(stream) ==
    IF \A i \in DOMAIN stream : stream[i] # NL THEN << >>
    ELSE LET i == CHOOSE j \in DOMAIN stream :
                    stream[j] = NL /\ \A h \in 1 .. (j - 1) : stream[h] # NL
         IN  << SubSeq(stream, 1, i - 1) >> \o Lines(SubSeq(stream, i + 1, Len(stream)))

\* how many of the lines are the given line
CountLine(lines, line) == Cardinality({i \in DOMAIN lines : lines[i] = line})

Casters == {Caster(i) : i \in 1 .. NumCasters}

(***************************************************************************)
(* C1. When a broadcast call returns, it has raised nothing; every socket  *)
(* that was registered when it began and whose write did not fail has the  *)
(* whole frame as the last thing written to it; every socket whose write   *)
(* failed is out of the registry and closed.                               *)
(***************************************************************************)
C1_BroadcastSurvivesFailures ==
    pc[Http] = "bc_ret" =>
      /\ loc[Http].exc = NoExc
      /\ \A s \in Range(loc[Http].members) :
           IF s \in Range(loc[Http].dead)
           THEN s \notin Range(tcp_clients) /\ fd[s] = "closed"
           ELSE EndsWith(out[s], Frame(loc[Http].msg))

\* a broadcast has returned after one write failed and another succeeded
C1_Witness ==
    /\ pc[Http] = "bc_ret"
    /\ Len(loc[Http].dead) > 0
    /\ \E s \in Range(loc[Http].members) : s \notin Range(loc[Http].dead)

(***************************************************************************)
(* C2. A broadcast that takes the lock after every adder has returned has, *)
(* when it returns and no write of any broadcast has failed, written its   *)
(* line exactly once to each of the sockets.                               *)
(***************************************************************************)
NoWriteFailed == \A c \in Casters : Len(loc[c].dead) = 0

C2_AddedAllReceiveOnce ==
    \A c \in Casters :
      (pc[c] = "bc_ret" /\ loc[c].ordered /\ NoWriteFailed) =>
        /\ loc[c].exc = NoExc
        /\ \A s \in Socks : CountLine(Lines(out[s]), loc[c].msg) = 1

\* a caster that began after all the adds, which interleaved with one
\* another's, has returned without a failure
C2_Witness ==
    \E c \in Casters :
      /\ pc[c] = "bc_ret" /\ loc[c].ordered /\ NoWriteFailed
      /\ Len(loc[c].members) = NumSocks
      /\ loc[c].members[1] # 1

(***************************************************************************)
(* C3. What has been written to a socket is at every moment a prefix of    *)
(* the frames of the broadcast calls that found it registered, in the      *)
(* order the calls took the lock; and it is all of them, whole, whenever   *)
(* no broadcast is under way and the socket is still registered.           *)
(***************************************************************************)
C3_FramesInCallOrder ==
    \A s \in Socks :
      /\ IsPrefix(out[s], hist.expect[s])
      /\ (lock = NoThread /\ s \in Range(tcp_clients)) => out[s] = hist.expect[s]

\* a socket holds the whole frame of one caster and the first piece of the
\* frame of another, whose sendall is under way
C3_Witness ==
    \E s \in Socks, c \in Casters :
      /\ pc[c] = "bc_send" /\ loc[c].off > 0
      /\ loc[c].i <= Len(tcp_clients) /\ tcp_clients[loc[c].i] = s
      /\ Len(Lines(out[s])) = 1
      /\ Lines(out[s])[1] # loc[c].msg

(***************************************************************************)
(* C4. Once the handler of a POST request is past its first step, the      *)
(* acknowledgment of that request has been written, and it is the same     *)
(* fixed response for every POST request, whatever the body, the registry  *)
(* and the fate of the writes.                                             *)
(***************************************************************************)
C4_AckBeforeProcessing ==
    /\ pc[Http] \in {"post_parse", "bc_lock", "bc_send", "bc_ret", "post_ret"} =>
         Len(resp) = hist.nreq /\ resp[hist.nreq] = OkResponse
    /\ pc[Http] = "idle" => Len(resp) = hist.nreq
    /\ \A i \in DOMAIN resp : hist.methods[i] = "POST" => resp[i] = OkResponse

\* a request has been acknowledged although a write of its broadcast failed
C4_Witness ==
    /\ pc[Http] = "bc_ret"
    /\ Len(loc[Http].dead) > 0
    /\ resp[hist.nreq] = OkResponse


(***************************************************************************)
(* C5. Every step the handler takes for a POST request whose body does not *)
(* parse, once the acknowledgment is out, leaves the counter, the          *)
(* registry, the sockets, what was written to them, the number of          *)
(* broadcast calls and the responses as they were, raises nothing, and     *)
(* leads to the handler's return.                                          *)
(***************************************************************************)
MalformedBodies == {BodyTruncated, BodyBadUtf8}

C5_MalformedBodyDropped ==
    [][(/\ req.method = "POST" /\ req.body \in MalformedBodies
        /\ pc[Http] \in {"post_parse", "post_ret"}
        /\ pc'[Http] # pc[Http])
       => /\ event_count' = event_count
          /\ tcp_clients' = tcp_clients
          /\ fd' = fd
          /\ out' = out
          /\ hist'.ncalls = hist.ncalls
          /\ resp' = resp
          /\ loc'[Http].exc = NoExc
          /\ pc'[Http] = IF pc[Http] = "post_parse" THEN "post_ret" ELSE "idle"]_vars

\* the handler has returned from a body that does not parse while a
\* subscriber was registered
C5_Witness ==
    /\ pc[Http] = "post_ret"
    /\ req.body \in MalformedBodies
    /\ Len(tcp_clients) > 0
    /\ event_count = 0

(***************************************************************************)
(* C6. The step that serves an OPTIONS request writes the response 204     *)
(* with an empty body and returns, leaving the counter, the registry, the  *)
(* sockets, what was written to them and the number of broadcast calls as  *)
(* they were.                                                              *)
(***************************************************************************)
C6_PreflightNoSideEffects ==
    [][(req.method = "OPTIONS" /\ pc'[Http] # pc[Http])
       => /\ resp' = Append(resp, [status |-> 204, body |-> << >>])
          /\ pc'[Http] = "idle"
          /\ event_count' = event_count
          /\ tcp_clients' = tcp_clients
          /\ fd' = fd
          /\ out' = out
          /\ hist'.ncalls = hist.ncalls]_vars

\* a pre-flight request has been answered while a subscriber was registered
\* and an event had been counted
C6_Witness ==
    /\ Len(resp) > 0
    /\ resp[Len(resp)] = PreflightResponse
    /\ pc[Http] = "idle"
    /\ Len(tcp_clients) > 0
    /\ event_count > 0

(***************************************************************************)
(* C7. The identifiers given to the events that came without soundId, in   *)
(* the order the server handled them (it handles one request at a time),   *)
(* are strictly increasing, hence distinct.                                *)
(***************************************************************************)
C7_FallbackIdsIncrease ==
    \A i, j \in DOMAIN hist.fallback :
      i < j => hist.fallback[i] < hist.fallback[j]

\* two events without soundId have been given identifiers
C7_Witness == Len(hist.fallback) >= 2

(***************************************************************************)
(* C8. The counter equals the number of POST requests received so far      *)
(* whose body is well-formed JSON, less the one being handled if it has    *)
(* not been counted yet: it starts at 0, and each such request, with or    *)
(* without soundId, dict or not, adds exactly one.                         *)
(***************************************************************************)
C8_CounterCountsAccepted ==
    LET pending == IF /\ pc[Http] \in {"post_respond", "post_parse"}
                      /\ WellFormed(req.body)
                   THEN 1 ELSE 0
    IN  event_count = hist.accepted - pending

\* two events have been counted, one that carried soundId and one that did not
C8_Witness ==
    /\ event_count = 2
    /\ Len(hist.fallback) = 1
    /\ pc[Http] = "idle"


(***************************************************************************)
(* What a subscriber decodes: json.loads of the line it was sent           *)
(* (audio_socket_client.py, line 603).                                     *)
(***************************************************************************)
Decoded(s) == json_loads(Lines(out[s])[1]).val

Keys(d) == {d.items[i].key : i \in DOMAIN d.items}

\* dict == dict: the same keys with the same values, in any order
DictEq(a, b) ==
    /\ Keys(a) = Keys(b)
    /\ \A key \in Keys(a) : Item(a, key) = Item(b, key)

\* the fields of the event model; any other attribute is an additional one
ModelKeys == {"type", "soundId", "delay", "timestamp", "sceneX", "sceneY", "range",
              "sourceName", "sourceAnimation"}

\* the broadcast of the one request has returned and each subscriber holds
\* exactly the one frame
Delivered ==
    /\ pc[Http] = "bc_ret"
    /\ \A s \in Socks : out[s] = Frame(loc[Http].msg) /\ Len(Lines(out[s])) = 1

(***************************************************************************)
(* C9, as claimed. Every additional attribute of an accepted event is in   *)
(* the frame each subscriber decodes, with the same value.                 *)
(***************************************************************************)
C9_EveryAttributePreserved ==
    pc[Http] = "bc_ret" =>
      \A s \in Socks : \A key \in Keys(loc[Http].event) \ ModelKeys :
        /\ HasKey(Decoded(s), key)
        /\ Item(Decoded(s), key) = Item(loc[Http].event, key)

(***************************************************************************)
(* C9, amended. Of the attributes outside the seven normalised fields,     *)
(* only sourceName, sourceAnimation, soundFile, soundUrl, attackType and   *)
(* source are copied: each is in the frame a subscriber decodes, with the  *)
(* same value, exactly when the event carries it with a value that is not  *)
(* empty, zero, null or false (and, for sourceAnimation, not -1); any      *)
(* other attribute is not in the frame.                                    *)
(***************************************************************************)
CopiedAttributes == {"sourceName", "sourceAnimation", "soundFile", "soundUrl",
                     "attackType", "source"}
NormalisedFields == {"type", "soundId", "delay", "timestamp", "sceneX", "sceneY",
                     "range"}
Falsy == {PyStr(""), PyInt(0), PyNone, [k |-> "l", s |-> "false", n |-> 0]}

Carried(event, key) ==
    /\ HasKey(event, key)
    /\ Item(event, key) \notin Falsy
    /\ key = "sourceAnimation" => Item(event, key) # PyInt(-1)

C9_ListedAttributesCopied ==
    pc[Http] = "bc_ret" =>
      \A s \in Socks :
        /\ Delivered
        /\ \A key \in (Keys(loc[Http].event) \cup Keys(Decoded(s))) \ NormalisedFields :
             IF key \in CopiedAttributes /\ Carried(loc[Http].event, key)
             THEN /\ HasKey(Decoded(s), key)
                  /\ Item(Decoded(s), key) = Item(loc[Http].event, key)
             ELSE ~HasKey(Decoded(s), key)

\* an event with a listed attribute, an empty listed attribute and an
\* unlisted one has been broadcast
C9_Witness ==
    /\ Delivered
    /\ HasKey(loc[Http].event, "soundFile") /\ HasKey(Decoded(1), "soundFile")
    /\ HasKey(loc[Http].event, "label") /\ ~HasKey(Decoded(1), "label")
    /\ HasKey(loc[Http].event, "sourceName") /\ ~HasKey(Decoded(1), "sourceName")

(***************************************************************************)
(* C10, as claimed. After the event {type: SOUND_EFFECT, soundId: 2498}    *)
(* each subscriber holds exactly one frame, and it decodes to the three    *)
(* fields type SOUND_EFFECT, soundId 2498, delay 0.                        *)
(***************************************************************************)
PointEvent == PyDict(<< Field("type", PyStr("SOUND_EFFECT")),
                        Field("soundId", PyInt(2498)) >>)

C10_PointFrameThreeFields ==
    (pc[Http] = "bc_ret" /\ loc[Http].event = PointEvent) =>
      \A s \in Socks :
        /\ Delivered
        /\ DictEq(Decoded(s), PyDict(<< Field("type", PyStr("SOUND_EFFECT")),
                                        Field("soundId", PyInt(2498)),
                                        Field("delay", PyInt(0)) >>))

(***************************************************************************)
(* C10, amended. After that event each subscriber holds exactly one frame, *)
(* and it decodes to type SOUND_EFFECT, soundId 2498, delay 0 together     *)
(* with the defaults timestamp 0, sceneX 0, sceneY 0 and range 15.         *)
(***************************************************************************)
C10_PointFrameWithDefaults ==
    (pc[Http] = "bc_ret" /\ loc[Http].event = PointEvent) =>
      \A s \in Socks :
        /\ Delivered
        /\ DictEq(Decoded(s), PyDict(<< Field("type", PyStr("SOUND_EFFECT")),
                                        Field("soundId", PyInt(2498)),
                                        Field("delay", PyInt(0)),
                                        Field("timestamp", PyInt(0)),
                                        Field("sceneX", PyInt(0)),
                                        Field("sceneY", PyInt(0)),
                                        Field("range", PyInt(15)) >>))

\* the event has been broadcast to two subscribers or more
C10_Witness ==
    /\ pc[Http] = "bc_ret" /\ loc[Http].event = PointEvent
    /\ Len(loc[Http].members) >= 2
    /\ \A s \in Socks : Len(out[s]) > 0

(***************************************************************************)
(* C11. After an area event (type AREA_SOUND_EFFECT, given or defaulted)   *)
(* has been broadcast, the range each subscriber decodes is 15 when the    *)
(* event came without range, and the value the producer gave, zero         *)
(* included, when it came with one.                                        *)
(***************************************************************************)
AreaEvent(event) == Get(event, "type", PyStr(DefaultType)) = PyStr("AREA_SOUND_EFFECT")

C11_AreaRangeDefaulted ==
    (pc[Http] = "bc_ret" /\ AreaEvent(loc[Http].event)) =>
      \A s \in Socks :
        /\ Delivered
        /\ HasKey(Decoded(s), "range")
        /\ Item(Decoded(s), "range") = IF HasKey(loc[Http].event, "range")
                                       THEN Item(loc[Http].event, "range")
                                       ELSE PyInt(15)

\* an event of type AREA_SOUND_EFFECT without range has reached a subscriber
C11_Witness ==
    /\ Delivered
    /\ HasKey(loc[Http].event, "type") /\ AreaEvent(loc[Http].event)
    /\ ~HasKey(loc[Http].event, "range")
    /\ Item(Decoded(1), "range") = PyInt(15)

(***************************************************************************)
(* C12, as claimed. A broadcast none of whose writes failed has written    *)
(* its line exactly once to every socket of the registry, however many     *)
(* times the socket was added; and when remove_client returns, the socket  *)
(* it was called with is not in the registry.                              *)
(***************************************************************************)
C12_AddIdempotent ==
    /\ (pc[Caller] = "bc_ret" /\ Len(loc[Caller].dead) = 0) =>
         \A s \in Range(loc[Caller].members) :
           CountLine(Lines(out[s]), loc[Caller].msg) = 1
    /\ pc[Caller] = "rm_ret" => loc[Caller].sock \notin Range(tcp_clients)

(***************************************************************************)
(* C13. When remove_client returns from a call with a socket that was not  *)
(* in the registry (never added, removed before, or dropped by a broadcast *)
(* whose write to it failed), it has raised nothing and the registry is as *)
(* the call found it.                                                      *)
(***************************************************************************)
C13_RemoveAbsentSafe ==
    (pc[Caller] = "rm_ret" /\ loc[Caller].sock \notin Range(loc[Caller].members)) =>
      /\ loc[Caller].exc = NoExc
      /\ tcp_clients = loc[Caller].members

\* remove_client has returned from a call with a socket that a broadcast had
\* dropped and closed, while another socket stays registered
C13_Witness ==
    /\ pc[Caller] = "rm_ret"
    /\ loc[Caller].sock \notin Range(loc[Caller].members)
    /\ fd[loc[Caller].sock] = "closed"
    /\ Len(tcp_clients) > 0

(***************************************************************************)
(* The lines of a text as the reader treats them: stripped, the blank ones *)
(* left out; those that are JSON, decoded; those that are not.             *)
(***************************************************************************)
RECURSIVE Dispatched(_)
Dispatched(lines) ==
    IF Len(lines) = 0 THEN << >>
    ELSE LET line == strip(lines[1])
         IN  (IF Len(line) > 0 /\ json_loads(line).ok
              THEN << json_loads(line).val >> ELSE << >>)
             \o Dispatched(Tail(lines))

RECURSIVE Malformed(_)
Malformed(lines) ==
    IF Len(lines) = 0 THEN << >>
    ELSE LET line == strip(lines[1])
         IN  (IF Len(line) > 0 /\ ~json_loads(line).ok THEN << line >> ELSE << >>)
             \o Malformed(Tail(lines))

IsReport(p) == p.what = "Invalid JSON"

\* the lines the loop has reported as invalid, in order
Reports == [i \in DOMAIN SelectSeq(client.printed, IsReport) |->
              SelectSeq(client.printed, IsReport)[i].line]

\* the stream has been read to its end or an exception has ended the loop,
\* and no read ended inside a character
Ended ==
    /\ client.pc = "done"
    /\ ~client.interrupted
    /\ client.exc # "UnicodeDecodeError"

(***************************************************************************)
(* C14, as claimed. When the loop has ended, not by an interrupt, the      *)
(* calls of handler are those made when the same bytes arrive in a single  *)
(* read, whatever the reads they arrived in.                               *)
(***************************************************************************)
C14_SplitInvariant ==
    (client.pc = "done" /\ ~client.interrupted) =>
      client.events = OneReadEvents(client.whole, client.discover)

(***************************************************************************)
(* C15, as claimed. When the loop has ended (not by an interrupt, and with *)
(* no read cut inside a character), nothing was raised, every line of the  *)
(* stream that is not blank and is not an event the handler accepts has    *)
(* been reported once, and every line that is such an event has been       *)
(* dispatched.                                                             *)
(***************************************************************************)
AllLines == Lines(utf8_decode(client.whole).text)

IsEventLine(l) ==
    /\ Len(strip(l)) > 0
    /\ json_loads(strip(l)).ok
    /\ HandlerRaises(json_loads(strip(l)).val, client.discover) = NoExc

IsBadLine(l) == Len(strip(l)) > 0 /\ ~IsEventLine(l)

C15_BadFrameNeverAborts ==
    Ended =>
      /\ client.exc = NoExc
      /\ Len(Reports) = Len(SelectSeq(AllLines, IsBadLine))
      /\ Dispatched(SelectSeq(AllLines, IsEventLine)) \in
           {client.events, SubSeq(client.events, 1, Len(client.events) - 1)}

(***************************************************************************)
(* C16. At every moment the calls of handler are, in order and once each,  *)
(* the decoded lines among the lines taken so far from the text received,  *)
(* and the reports are the lines among them that are no JSON; before each  *)
(* read, and at end of stream, every complete line received has been       *)
(* taken, and at end of stream all the text sent has been received.        *)
(***************************************************************************)
Taken == SubSeq(Lines(client.recvd), 1, client.nlines)

C17_EofEndsLoop ==
    /\ [](client.eof =>
            /\ client.pc \in {"finally", "done"}
            /\ client.exc = NoExc
            /\ client.printed[Len(client.printed)]
                 = [what |-> "Server disconnected.", line |-> << >>])
    /\ [](client.pc = "done" => client.sock = "closed")
    /\ [][client.eof =>
            /\ client'.events = client.events
            /\ client'.wire = client.wire
            /\ client'.pc = "done"
            /\ client'.sock = "closed"]_vars

\* the stream has ended after events were dispatched, and the socket is closed
C17_Witness ==
    /\ client.eof /\ client.pc = "done" /\ client.sock = "closed"
    /\ Len(client.events) > 0

(***************************************************************************)
(* C18. After an event has been broadcast, what each subscriber holds is   *)
(* one line: it ends with a newline, holds no other, and no string in it   *)
(* holds a line feed that is not escaped; and the reader's loop run on it  *)
(* calls the handler once, with a dict equal to the normalised event the   *)
(* bridge encoded, the copied fields included.                             *)
(***************************************************************************)
RawNewline(tok) == tok.k = "s" /\ tok.s = "a\nb"

C18_RoundTrip ==
    pc[Http] = "bc_ret" =>
      \A s \in Socks :
        /\ Len(out[s]) > 0 /\ out[s][Len(out[s])] = NL
        /\ Cardinality({i \in DOMAIN out[s] : out[s][i] = NL}) = 1
        /\ \A i \in DOMAIN out[s] : ~RawNewline(out[s][i])
        /\ LET events == OneReadEvents(out[s], FALSE)
           IN  /\ Len(events) = 1
               /\ DictEq(events[1], normalize(loc[Http].event, event_count))

\* an event whose sourceName holds a line feed, and which carries soundFile,
\* has been broadcast and decoded with both
C18_Witness ==
    /\ Delivered
    /\ HasKey(loc[Http].event, "sourceName")
    /\ Item(loc[Http].event, "sourceName") = PyStr("a\nb")
    /\ Item(OneReadEvents(out[1], FALSE)[1], "sourceName") = PyStr("a\nb")
    /\ HasKey(OneReadEvents(out[1], FALSE)[1], "soundFile")

(***************************************************************************)
(* C19. While the handler's broadcast is under way the registry does not   *)
(* change and no registered socket is closed; the step that ends it raises *)
(* nothing, leaves in the registry the sockets it found there less those   *)
(* whose write failed, in their order, and closes no socket but those.     *)
(***************************************************************************)
WriteFailed(s) == s \in Range(loc[Http].dead)
WriteDone(s) == ~WriteFailed(s)

C19_OnlyFailedRemoved ==
    [][pc[Http] = "bc_send" =>
         IF pc'[Http] = "bc_ret"
         THEN /\ loc'[Http].exc = NoExc
              /\ tcp_clients' = SelectSeq(loc[Http].members, WriteDone)
              /\ \A s \in Socks : WriteDone(s) => fd'[s] = fd[s]
              /\ \A s \in Socks : WriteFailed(s) => fd'[s] = "closed"
         ELSE /\ tcp_clients' = tcp_clients
              /\ tcp_clients = loc[Http].members
              /\ \A s \in Range(tcp_clients) : fd'[s] = fd[s]]_vars

\* a broadcast that found two subscribers has returned after the write to
\* one of them failed: the other is still registered and open
C19_Witness ==
    /\ pc[Http] = "bc_ret"
    /\ Len(loc[Http].members) = 2
    /\ Len(loc[Http].dead) = 1
    /\ \E s \in Range(loc[Http].members) :
         s \notin Range(loc[Http].dead) /\ s \in Range(tcp_clients) /\ fd[s] = "open"

WriteStalled(s) ==
    /\ pc[Http] = "bc_send"
    /\ loc[Http].i <= Len(tcp_clients)
    /\ tcp_clients[loc[Http].i] = s
    /\ fd[s] = "open"
    /\ peer[s] = "stalled"

\* every subscriber other than s that is registered and reading has all
\* the frames of the broadcasts that found it registered
OthersDelivered(s) ==
    \A r \in Socks \ {s} :
        r \in Range(tcp_clients) /\ fd[r] = "open" /\ peer[r] = "up"
            => out[r] = hist.expect[r]

\* no thread waits for the lock in add_client or remove_client
NoCallWaiting ==
    /\ pc[Tcp] # "add_lock"
    /\ \A r \in Socks : pc[Mon(r)] # "rm_lock"

C21_StallBlocksOnlyThatSubscriber ==
    \A s \in Socks :
        /\ WriteStalled(s) ~> OthersDelivered(s)
        /\ WriteStalled(s) ~> (pc[Http] # "bc_send")
        /\ WriteStalled(s) ~> NoCallWaiting

(***************************************************************************)
(* C22: the lock of the registry is held only while the list is changed    *)
(* or copied. In every state in which a broadcast stands in a write to a   *)
(* subscriber, that broadcast does not hold the lock.                      *)
(***************************************************************************)
\* broadcast, called by t, stands in sock.sendall for a subscriber
Writing(t) ==
    /\ pc[t] = "bc_send"
    /\ loc[t].i <= Len(tcp_clients)

C22_WritesOutsideLock ==
    \A t \in Threads : Writing(t) => lock # t

(***************************************************************************)
(* C23: broadcast may run while the accept loop adds and monitors remove.  *)
(* While a broadcast iterates the list, no other thread changes it, and    *)
(* the broadcast writes only to the members it found when it began; when   *)
(* it returns, each of those members has the frame or was found dead; and  *)
(* a broadcast begins with exactly the sockets whose add_client has        *)
(* returned and that have not been removed since, so that a change made    *)
(* during one broadcast shows in the next.                                 *)
(***************************************************************************)
\* add_client(s) has returned
Added(s) ==
    \/ pc[Mon(s)] # "off"
    \/ pc[Tcp] = "spawn" /\ loc[Tcp].sock = s

\* s has been taken out of the registry: by its monitor, whose
\* remove_client has returned, or by a broadcast that found it dead
Gone(s) ==
    \/ pc[Mon(s)] \in {"mon_close", "done"}
    \/ fd[s] = "closed"

C23_BroadcastSafeWithAddRemove ==
    /\ [](pc[Http] = "bc_ret" =>
            /\ loc[Http].exc = NoExc
            /\ \A s \in Range(loc[Http].members) :
                 \/ s \in Range(loc[Http].dead)
                 \/ EndsWith(out[s], Frame(loc[Http].msg)))
    /\ [][/\ pc[Http] = "bc_send" /\ tcp_clients' # tcp_clients
              => pc'[Http] = "bc_ret"
          /\ pc[Http] = "bc_send"
              => \A s \in Socks : out'[s] # out[s] => s \in Range(loc[Http].members)
          /\ pc[Http] = "bc_lock" /\ pc'[Http] = "bc_send"
              => Range(loc'[Http].members) = {s \in Socks : Added(s) /\ ~Gone(s)}
         ]_vars

\* a second broadcast is in flight while the accept loop waits to add a
\* socket and a monitor waits to remove one
C23_Witness ==
    /\ pc[Http] = "bc_send"
    /\ hist.ncalls = 2
    /\ pc[Tcp] = "add_lock"
    /\ \E s \in Socks : pc[Mon(s)] = "rm_lock" /\ s \in Range(loc[Http].members)

(***************************************************************************)
(* C24: every accepted event is broadcast once. Whenever the handler is    *)
(* between requests, the broadcast calls made so far are as many as the    *)
(* requests whose body parsed, and as many as the counter says.            *)
(***************************************************************************)
C24_OneBroadcastPerAcceptedEvent ==
    pc[Http] = "idle" =>
        /\ event_count = hist.accepted
        /\ hist.ncalls = event_count

(***************************************************************************)
(* C25: a monitor only reads, and ends for its own connection alone. No    *)
(* step of the monitor of s writes to any connection; it leaves every      *)
(* other socket as registered and as open as it was, and the accept loop   *)
(* where it stood; and a monitor that has ended has its own socket out of  *)
(* the registry and closed.                                                *)
(***************************************************************************)
\* a step taken by the running monitor of s
MonitorMoves(s) ==
    /\ pc[Mon(s)] # "off"
    /\ pc'[Mon(s)] # pc[Mon(s)]

C25_MonitorsIndependent ==
    /\ [](\A s \in Socks : pc[Mon(s)] = "done" =>
              s \notin Range(tcp_clients) /\ fd[s] = "closed")
    /\ [][\A s \in Socks : MonitorMoves(s) =>
              /\ out' = out
              /\ pc'[Tcp] = pc[Tcp]
              /\ \A r \in Socks \ {s} :
                   /\ fd'[r] = fd[r]
                   /\ Count(tcp_clients', r) = Count(tcp_clients, r)
         ]_vars

\* the monitor of one socket has ended while another socket, accepted
\* before it, is still registered and open
C25_Witness ==
    \E s, r \in Socks :
        /\ r < s
        /\ pc[Mon(s)] = "done"
        /\ r \in Range(tcp_clients)
        /\ fd[r] = "open"
        /\ pc[Mon(r)] = "recv"

(***************************************************************************)
(* C26: no socket the bridge has closed is in the registry. Broadcast and  *)
(* the monitor both take a socket out of the registry before they close    *)
(* it, and when both remove the same socket neither call raises.           *)
(***************************************************************************)
C26_ClosedNeverRegistered ==
    /\ \A s \in Socks : fd[s] = "closed" => s \notin Range(tcp_clients)
    /\ \A t \in Threads : loc[t].exc # "ValueError"

\* a broadcast found s dead, removed and closed it, and the monitor of s
\* has then gone through remove_client for it too
C26_Witness ==
    \E s \in Socks :
        /\ fd[s] = "closed"
        /\ pc[Mon(s)] = "mon_close"
        /\ s \in Range(loc[Http].dead)

(***************************************************************************)
(* C27: a removed subscriber is written to no more. Every step that        *)
(* writes to a socket finds it in the registry, and writes to no socket    *)
(* whose removal, by its monitor or by a broadcast that found it dead,     *)
(* has returned.                                                           *)
(***************************************************************************)
C27_NoWriteAfterRemoval ==
    [][\A s \in Socks : out'[s] # out[s] =>
           /\ s \in Range(tcp_clients)
           /\ ~Gone(s)
      ]_vars

\* s got the first frame and was removed by its monitor; the second
\* broadcast has returned and wrote to the other subscriber alone
C27_Witness ==
    \E s, r \in Socks :
        /\ pc[Mon(s)] = "done"
        /\ pc[Http] = "bc_ret"
        /\ hist.ncalls = 2
        /\ Len(Lines(out[s])) = 1
        /\ Len(Lines(out[r])) = 2

====
